---------------------------- MODULE Spec2Model ----------------------------
(***************************************************************************)
(* CoreMQ (deejross/coremq): a publish/subscribe broker on an asyncio      *)
(* (trollius) event loop, with master/replicant mirroring.                 *)
(*                                                                         *)
(* Two specifications share the broker's operators:                        *)
(*   Spec         one broker process: its event loop (ready queue, one     *)
(*                poll per iteration), the accepted connections, framing,  *)
(*                the dispatcher, the history and the fan-out.             *)
(*   ClusterSpec  several broker processes: find_master, the replication   *)
(*                client, reconnect and promote, and the forwarding of a   *)
(*                publish between brokers.                                 *)
(*                                                                         *)
(* Text is a sequence of one-character strings.  A JSON document is the    *)
(* text "{" ... "}" in which each character stands for one key and its    *)
(* value; a digit alone is a JSON number; anything else does not parse.    *)
(* A message is a function from its keys to their values, as the Python    *)
(* dict it is: a key is in the message iff it is in its DOMAIN.            *)
(* coremq_sent (the wall clock) is left out of the messages.               *)
(***************************************************************************)
EXTENDS Integers, Sequences, FiniteSets, TLC

\* ----------------------------------------------------------------- bounds

\* Connections one broker accepts in a behaviour of Spec.
MaxConns == 2

\* Segments one broker receives in a behaviour of Spec.
MaxSegments == 3

\* Frames concatenated in one received segment.
MaxFrames == 3

\* Connections whose client closes in a behaviour of Spec.
MaxCloses == 1

\* Connections made between brokers in a behaviour of ClusterSpec.
MaxLinks == 3

\* Brokers that go down in a behaviour of ClusterSpec.
MaxCrashes == 1

\* Messages the local clients publish in a behaviour of ClusterSpec.
MaxPublishes == 1

\* Messages the brokers handle in a behaviour of ClusterSpec.
MaxDispatch == 5

\* ------------------------------------------------------ program constants

\* deque(maxlen=10)
HistoryMax == 10

\* ------------------------------------------------------------------ text

NONE == "none"

Digits == <<"0", "1", "2", "3", "4", "5", "6", "7", "8", "9">>

IsDigit(ch) == \E i \in 1..10 : Digits[i] = ch

DigitVal(ch) == (CHOOSE i \in 1..10 : Digits[i] = ch) - 1

\* str(n) for n >= 0
RECURSIVE IntToText(_)
IntToText(n) ==
    IF n < 10 THEN <<Digits[n + 1]>>
    ELSE IntToText(n \div 10) \o <<Digits[(n % 10) + 1]>>

\* int(s) of a text of decimal digits; ok is FALSE where int() raises
\* ValueError (signs, blanks and underscores are not modelled: the texts
\* of the model hold none).
RECURSIVE DigitsToInt(_)
DigitsToInt(s) ==
    IF Len(s) = 0 THEN 0
    ELSE 10 * DigitsToInt(SubSeq(s, 1, Len(s) - 1)) + DigitVal(s[Len(s)])

ParseInt(s) ==
    IF Len(s) > 0 /\ \A i \in 1..Len(s) : IsDigit(s[i])
    THEN [ok |-> TRUE, val |-> DigitsToInt(s)]
    ELSE [ok |-> FALSE, val |-> 0]

HasSpace(s) == \E i \in 1..Len(s) : s[i] = " "

FirstSpace(s) == CHOOSE i \in 1..Len(s) : s[i] = " " /\ \A j \in 1..(i - 1) : s[j] # " "

\* s.split(' ', 1) of a text holding a space
SplitHead(s) == SubSeq(s, 1, FirstSpace(s) - 1)

SplitTail(s) == SubSeq(s, FirstSpace(s) + 1, Len(s))

\* --------------------------------------------------------------- messages

Has(m, k) == k \in DOMAIN m

\* message[k] = v
Put(m, k, v) == (k :> v) @@ m

\* Queue names and connection identifiers are texts.
Q1 == <<"q">>

Q2 == <<"r">>

Queues == {Q1, Q2}

\* str(uuid.uuid4()): the i-th identifier minted.  uuid4 is taken to be
\* fresh: no identifier is minted twice.
Uuid(i) == <<"u", Digits[i + 1]>>

\* This broker's name and port, and the coremq_server stamp made of them.
ServerName == "broker"

ServerStamp == "broker:6747"

\* The name a downstream peer declares, which is its own coremq_server stamp.
PeerStamp == "peer:6747"

OtherStamp == "other:6747"

EmptyMsg == [k \in {} |-> NONE]

\* The queue-name argument of a command: a list of names, or one bare string.
NameList(qs) == [list |-> TRUE, v |-> qs]

NameString(q) == [list |-> FALSE, v |-> q]

\* The payload letters: the k-th publish frame a client writes carries n = Letters[k].
Letters == <<"a", "b", "c", "d", "e", "f", "g", "h", "i", "j", "k", "l", "m",
             "n", "o", "p", "q", "r", "s", "t", "u", "v", "w", "x", "y", "z">>

IsLetter(ch) == \E i \in 1..Len(Letters) : Letters[i] = ch

LetterIndex(ch) == CHOOSE i \in 1..Len(Letters) : Letters[i] = ch

\* The key and value one character of a JSON object's text stands for.
JsonKey(ch) ==
    CASE IsLetter(ch) -> "n"
      [] ch = "S" -> "coremq_subscribe"
      [] ch = "U" -> "coremq_unsubscribe"
      [] ch = "O" -> "coremq_options"
      [] ch = "H" -> "coremq_gethistory"
      [] ch = "R" -> "coremq_replicant"
      [] ch = "T" -> "coremq_status"
      [] ch = "P" -> "coremq_server"
      [] ch = "Q" -> "coremq_server"
      [] ch = "M" -> "coremq_master"
      [] ch = "F" -> "coremq_fwdto"
      [] ch = "X" -> "coremq_sender"

JsonValue(ch) ==
    CASE IsLetter(ch) -> ch
      [] ch = "S" -> NameList(<<Q1>>)
      [] ch = "U" -> NameList(<<Q1>>)
      [] ch = "O" -> [k \in {"opt"} |-> "on"]
      [] ch = "H" -> NameList(<<Q1>>)
      [] ch = "R" -> PeerStamp
      [] ch = "T" -> "1"
      [] ch = "P" -> PeerStamp
      [] ch = "Q" -> OtherStamp
      [] ch = "M" -> "top"
      [] ch = "F" -> Uuid(9)
      [] ch = "X" -> Uuid(1)

JsonChars == {"S", "U", "O", "H", "R", "T", "P", "Q", "M", "F", "X"}

IsJsonChar(ch) == IsLetter(ch) \/ ch \in JsonChars

\* The object whose text holds the characters s, a later key replacing an
\* earlier one of the same name.
RECURSIVE JsonObject(_)
JsonObject(s) ==
    IF Len(s) = 0 THEN EmptyMsg
    ELSE Put(JsonObject(SubSeq(s, 1, Len(s) - 1)), JsonKey(s[Len(s)]), JsonValue(s[Len(s)]))

\* The characters between the entries of an object's text.
IsJsonSeparator(ch) == ch = "," \/ ch = " "

\* json.loads: ok is FALSE where it raises, dict is whether the value is a
\* dictionary.  The separators between the entries of an object carry nothing.
JsonLoads(s) ==
    IF Len(s) >= 2 /\ s[1] = "{" /\ s[Len(s)] = "}"
       /\ \A i \in 2..(Len(s) - 1) : IsJsonChar(s[i]) \/ IsJsonSeparator(s[i])
    THEN [ok |-> TRUE, dict |-> TRUE,
          val |-> JsonObject(SelectSeq(SubSeq(s, 2, Len(s) - 1), IsJsonChar))]
    ELSE IF Len(s) = 1 /\ IsDigit(s[1])
    THEN [ok |-> TRUE, dict |-> FALSE, val |-> EmptyMsg]
    ELSE [ok |-> FALSE, dict |-> FALSE, val |-> EmptyMsg]

\* The character standing for the entry k: v of an object.
CharOf(k, v) ==
    CHOOSE ch \in JsonChars \cup {Letters[i] : i \in 1..Len(Letters)} :
        JsonKey(ch) = k /\ JsonValue(ch) = v

\* json.dumps of a dictionary: '{', the entries with ', ' between them, '}'.
RECURSIVE DumpEntries(_)
DumpEntries(m) ==
    IF DOMAIN m = {} THEN <<>>
    ELSE LET k == CHOOSE x \in DOMAIN m : TRUE
             rest == DumpEntries([x \in DOMAIN m \ {k} |-> m[x]])
         IN  <<CharOf(k, m[k])>> \o (IF rest = <<>> THEN <<>> ELSE <<",", " ">> \o rest)

JsonDumps(m) == <<"{">> \o DumpEntries(m) \o <<"}">>

\* The text of the JSON object whose keys the characters t stand for.
JsonText(t) == <<"{">> \o t \o <<"}">>

\* ---------------------------------------------------------------- framing

\* The frame of a message, as coremq_common.send_message builds it:
\* '+%s %s ' % (len(json) + len(queue) + 1, queue) + json
construct_message(queue, json) ==
    <<"+">> \o IntToText(Len(json) + Len(queue) + 1) \o <<" ">> \o queue \o <<" ">> \o json

\* validate_header: err names the exception raised, or is NONE and then
\* length and data are the pair returned.
validate_header(data) ==
    IF Len(data) = 0 THEN [err |-> "ConnectionClosed", length |-> 0, data |-> <<>>]
    ELSE IF data[1] # "+" THEN [err |-> "ProtocolError", length |-> 0, data |-> <<>>]
    ELSE IF ~HasSpace(data) THEN [err |-> "ProtocolError", length |-> 0, data |-> <<>>]
    ELSE LET length == SplitHead(data)
             rest == SplitTail(data)
             parsed == ParseInt(SubSeq(length, 2, Len(length)))
         IN  IF ~parsed.ok THEN [err |-> "ProtocolError", length |-> 0, data |-> <<>>]
             ELSE [err |-> NONE, length |-> parsed.val, data |-> rest]


\* A character outside ASCII, and the two bytes UTF-8 encodes it as.
NonAscii == "U+00E9"

Utf8Lead == "0xC3"

Utf8Trail == "0xA9"

\* s.encode('utf-8'): the bytes of a text.
RECURSIVE Utf8Encode(_)
Utf8Encode(s) ==
    IF Len(s) = 0 THEN <<>>
    ELSE (IF Head(s) = NonAscii THEN <<Utf8Lead, Utf8Trail>> ELSE <<Head(s)>>)
         \o Utf8Encode(Tail(s))

\* b.decode('utf-8'): ok is FALSE where it raises UnicodeDecodeError, on a
\* lead byte without its trail byte or a trail byte without its lead.
RECURSIVE Utf8Decode(_)
Utf8Decode(b) ==
    IF Len(b) = 0 THEN [ok |-> TRUE, text |-> <<>>]
    ELSE IF Head(b) = Utf8Trail THEN [ok |-> FALSE, text |-> <<>>]
    ELSE IF Head(b) = Utf8Lead
    THEN IF Len(b) >= 2 /\ b[2] = Utf8Trail
         THEN LET r == Utf8Decode(SubSeq(b, 3, Len(b)))
              IN  [ok |-> r.ok, text |-> <<NonAscii>> \o r.text]
         ELSE [ok |-> FALSE, text |-> <<>>]
    ELSE LET r == Utf8Decode(Tail(b))
         IN  [ok |-> r.ok, text |-> <<Head(b)>> \o r.text]

\* coremq_common.send_message(socket, queue, message) for a dictionary:
\* err names the exception raised, or is NONE and data holds the bytes sent.
common_send_message(queue, message) ==
    IF Len(queue) < 1 \/ HasSpace(queue) THEN [err |-> "ValueError", data |-> <<>>]
    ELSE LET bytes == Utf8Encode(JsonDumps(message))
         IN  [err |-> NONE,
              data |-> Utf8Encode(<<"+">> \o IntToText(Len(bytes) + Len(queue) + 1)
                                  \o <<" ">> \o queue \o <<" ">>) \o bytes]

\* socket.recv(n) on the bytes still unread.
Recv(stream, n) == SubSeq(stream, 1, IF n < Len(stream) THEN n ELSE Len(stream))

Unread(stream, n) == SubSeq(stream, (IF n < Len(stream) THEN n ELSE Len(stream)) + 1, Len(stream))

\* get_message, the loop: recv until the text holds the expected length.
\* With nothing left to read recv times out.
RECURSIVE RecvRest(_, _, _)
RecvRest(stream, data, expected) ==
    IF Len(data) >= expected THEN [err |-> NONE, data |-> data]
    ELSE IF Len(stream) = 0 THEN [err |-> "timeout", data |-> data]
    ELSE LET d == Utf8Decode(Recv(stream, expected - Len(data)))
         IN  IF ~d.ok THEN [err |-> "UnicodeDecodeError", data |-> data]
             ELSE RecvRest(Unread(stream, expected - Len(data)), data \o d.text, expected)

NoMessage(err) == [err |-> err, length |-> 0, queue |-> <<>>, message |-> EmptyMsg]

\* coremq_common.get_message(socket) reading the bytes of stream: err names
\* the exception raised, or is NONE and length is the header's number,
\* queue and message the pair returned.
get_message(stream) ==
    LET first == Utf8Decode(Recv(stream, 10))
        vh == validate_header(first.text)
        all == RecvRest(Unread(stream, 10), vh.data, vh.length)
        js == JsonLoads(SplitTail(all.data))
    IN  IF ~first.ok THEN NoMessage("UnicodeDecodeError")
        ELSE IF vh.err # NONE THEN NoMessage(vh.err)
        ELSE IF all.err # NONE THEN NoMessage(all.err)
        ELSE IF ~HasSpace(all.data)
        THEN [err |-> NONE, length |-> vh.length, queue |-> NONE, message |-> EmptyMsg]
        ELSE IF ~js.ok THEN NoMessage("ValueError")
        ELSE [err |-> NONE, length |-> vh.length, queue |-> SplitHead(all.data),
              message |-> js.val]


\* ------------------------------------------------------- one broker: state

VARIABLES
    py3,                   \* the interpreter is Python 3 (setup.py: 2.7+ and 3.4+)
    peer_allowed,          \* the clients' host is in ServerState.allowed_replicants
    minted,                \* identifiers minted so far
    proto,                 \* the CoreMqServerProtocol objects, by identifier
    connections,           \* ServerState.connections: key -> the object's identifier
    replicant_id_to_name,  \* ServerState.replicant_id_to_name
    history,               \* ServerState.history: queue -> deque
    master,                \* ServerState.master: NONE, or the upstream handle
    transport,             \* the sockets not yet closed: "open" or "closing"
    out,                   \* what was written to each accepted connection
    upstream,              \* what was written to the master handle
    ready,                 \* the event loop's queue of ready handles
    ntodo,                 \* handles left to run in this iteration of the loop
    nsegs,                 \* segments received so far
    ncloses,               \* connections closed by their client so far
    npub,                  \* publish frames the clients have written so far
    sent,                  \* per connection, the segments its client wrote (letters)
    dispatched,            \* the publishes handed to new_message, in order
    published,             \* per queue, the publishes the dispatcher handled
    last,                  \* the latest broadcast: its message and its writes
    menu,                  \* what the clients of this run write: "fanout", "replicas", "framing", "commands"
    partial,               \* per connection, the rest of a frame its client wrote in part
    written                \* the frames written in parts or malformed: connection, kind, n

brokerVars ==
    <<py3, peer_allowed, minted, proto, connections, replicant_id_to_name, history, master,
      transport, out, upstream, ready, ntodo, nsegs, ncloses, npub, sent,
      dispatched, published, last, menu, partial, written>>

\* A framing round trip of coremq_common: a queue and a message, the frame
\* send_message emits for them and what get_message reads back.
VARIABLE codec

\* One call of a command handler, made with a bare queue name and with the
\* list holding that name: the arguments and the two results.
VARIABLE call

\* The cluster: several brokers, each a process with its own ServerState,
\* and the replication connections between them.
VARIABLES
    dotted,                \* the hosts' names are fully qualified (gethostname, cluster_nodes)
    phase,                 \* per broker: "down", "up" (listening), "stopped" (loop.stop())
    task,                  \* per broker: the factory.connect() in progress and its next server
    cmaster,               \* per broker: ServerState.master, a link (0: None)
    fconn,                 \* per broker: factory.connection, a link (0: None)
    connected_once,        \* per broker: factory.connected_once
    reg,                   \* per broker: ServerState.connections with each object's fields
    rnames,                \* per broker: ServerState.replicant_id_to_name
    links,                 \* the connections made between brokers, with the frames in flight
    ndispatch,             \* messages the brokers have handled so far
    ncrashes,              \* brokers that went down so far
    npublished,            \* messages the local clients have published so far
    copies,                \* per broker: broadcast copies its local client received
    replies,               \* per broker: responses its local client received
    lastb                  \* the latest broadcast in the cluster

clusterVars ==
    <<dotted, phase, task, cmaster, fconn, connected_once, reg, rnames, links,
      ndispatch, ncrashes, npublished, copies, replies, lastb>>

EmptyFun == [k \in {} |-> NONE]

\* The brokers, in the order cluster_nodes lists them on every broker.
BrokerOrder == <<"a", "b">>

Brokers == {BrokerOrder[i] : i \in 1..Len(BrokerOrder)}

NoTask == [kind |-> NONE, idx |-> 0]

NoLastB == [broker |-> NONE, via |-> FALSE, up |-> FALSE, stamped |-> FALSE,
            published |-> FALSE, route |-> <<>>, fwd |-> FALSE, replied |-> FALSE,
            response |-> NONE, queue |-> <<>>, stored |-> FALSE]

\* No broker runs.
ClusterIdle ==
    /\ phase = [b \in Brokers |-> "down"]
    /\ task = [b \in Brokers |-> NoTask]
    /\ cmaster = [b \in Brokers |-> 0]
    /\ fconn = [b \in Brokers |-> 0]
    /\ connected_once = [b \in Brokers |-> FALSE]
    /\ reg = [b \in Brokers |-> EmptyFun]
    /\ rnames = [b \in Brokers |-> EmptyFun]
    /\ links = <<>>
    /\ ndispatch = 0
    /\ ncrashes = 0
    /\ npublished = 0
    /\ copies = [b \in Brokers |-> 0]
    /\ replies = [b \in Brokers |-> 0]
    /\ lastb = NoLastB


NoLast == [queue |-> <<>>, message |-> EmptyMsg, sender |-> <<>>,
           sender_replicant |-> FALSE, registry |-> EmptyFun,
           names |-> EmptyFun, replicants |-> {}, subscribers |-> {}, up |-> FALSE, n |-> 0]

Handle(kind, conn, data, queue, message) ==
    [kind |-> kind, conn |-> conn, data |-> data, queue |-> queue, message |-> message]

\* CoreMqServerProtocol.__init__: the fields of a new protocol object.
NewProtocol ==
    [subscriptions |-> <<>>, options |-> EmptyFun, is_replicant |-> FALSE, made |-> FALSE]

InSeq(x, s) == \E i \in 1..Len(s) : s[i] = x

RECURSIVE Without(_, _)
\* list.remove(x): the first x is taken out
Without(s, x) ==
    IF Len(s) = 0 THEN s
    ELSE IF Head(s) = x THEN Tail(s)
    ELSE <<Head(s)>> \o Without(Tail(s), x)

\* transport.write(construct_message(queue, message)) on connection u: a
\* transport that is closing or closed drops what is written.
send_message(o, u, queue, message) ==
    IF u \in DOMAIN transport /\ transport[u] = "open"
    THEN [o EXCEPT ![u] = Append(@, [queue |-> queue, message |-> message])]
    ELSE o

\* respond(to, text, quiet) of connection u
respond(o, u, to, text, quiet) ==
    IF quiet THEN o ELSE send_message(o, u, to, [response |-> text])

\* The names a queue-name argument iterates over: the elements of a list,
\* the characters of a string.
Iterate(arg) ==
    IF arg.list THEN arg.v ELSE [i \in 1..Len(arg.v) |-> <<arg.v[i]>>]

\* The list subscribe and unsubscribe work on: a non-list is wrapped.
Normalize(arg) == IF arg.list THEN arg.v ELSE <<arg.v>>

RECURSIVE AppendNew(_, _)
\* for q in queues: if q not in subs: subs.append(q)
AppendNew(subs, queues) ==
    IF Len(queues) = 0 THEN subs
    ELSE AppendNew(IF InSeq(Head(queues), subs) THEN subs ELSE Append(subs, Head(queues)),
                   Tail(queues))

RECURSIVE RemoveEach(_, _)
\* for q in queues: if q in subs: subs.remove(q)
RemoveEach(subs, queues) ==
    IF Len(queues) = 0 THEN subs
    ELSE RemoveEach(Without(subs, Head(queues)), Tail(queues))

\* subscribe(queues) of a registered connection: its new subscriptions
subscribe(subs, arg) ==
    IF Len(arg.v) = 0 THEN subs ELSE AppendNew(subs, Normalize(arg))

\* unsubscribe(queues)
unsubscribe(subs, arg) ==
    IF Len(arg.v) = 0 THEN subs ELSE RemoveEach(subs, Normalize(arg))

\* set_options(options): update, then drop the keys given as None
set_options(opts, options) ==
    LET merged == options @@ opts
    IN  [k \in {x \in DOMAIN merged : ~(x \in DOMAIN options /\ options[x] = NONE)}
            |-> merged[k]]

\* The body of the store_message coroutine: append to the queue's deque(maxlen=10).
store_message(h, queue, message) ==
    LET old == IF queue \in DOMAIN h THEN h[queue] ELSE <<>>
        new == Append(old, message)
        kept == IF Len(new) > HistoryMax THEN SubSeq(new, Len(new) - HistoryMax + 1, Len(new))
                ELSE new
    IN  (queue :> kept) @@ h

\* self.store_message(queue, message) in new_message: the call of a function
\* decorated @asyncio.coroutine makes a generator object and runs none of its
\* body; the object is neither yielded nor scheduled, so the state stays as
\* it was before the call.
CallCoroutineUnscheduled(before, after) == before

\* get_history's result: for q in queues: if q in history: result[q] = list(...)
HistoryResult(h, arg) ==
    LET names == Iterate(arg)
    IN  [q \in {names[i] : i \in {j \in 1..Len(names) : names[j] \in DOMAIN h}} |-> h[q]]

\* ------------------------------------------------------ one broker: fan-out

\* broadcast, step 1: the frame written to the master handle, if any.
UpstreamForward(mst, queue, message) ==
    IF mst # NONE /\ ~Has(message, "coremq_master")
    THEN IF ~Has(message, "coremq_fwdto") /\ Has(message, "coremq_sender")
         THEN <<[queue |-> queue, message |-> Put(message, "coremq_fwdto", message["coremq_sender"])]>>
         ELSE <<[queue |-> queue, message |-> message]>>
    ELSE <<>>

\* The message after step 1 (the dictionary is changed in place).
AfterUpstream(mst, message) ==
    IF mst # NONE /\ ~Has(message, "coremq_master")
       /\ ~Has(message, "coremq_fwdto") /\ Has(message, "coremq_sender")
    THEN Put(message, "coremq_fwdto", message["coremq_sender"])
    ELSE message

\* broadcast, step 2: the message after the loop over the replicants.
StampMaster(mst, rmap, name, message) ==
    IF DOMAIN rmap # {} /\ mst = NONE THEN Put(message, "coremq_master", name) ELSE message

\* A fan-out to the replicants that does not compare names.
ReplicantRecipients_AnyName(rmap, message) == DOMAIN rmap

\* broadcast, step 2: the replicant connections written to.
ReplicantRecipients(rmap, message) ==
    {i \in DOMAIN rmap : rmap[i] # message["coremq_server"]}

\* A fan-out to the subscribers that does not skip the sender.
SubscriberRecipients_AnySender(conns, objs, queue, message) ==
    {i \in DOMAIN conns :
        /\ ~objs[conns[i]].is_replicant
        /\ InSeq(queue, objs[conns[i]].subscriptions)}

\* broadcast, step 3: the subscribers written to.
SubscriberRecipients(conns, objs, queue, message) ==
    {i \in DOMAIN conns :
        /\ ~(Has(message, "coremq_sender") /\ i = message["coremq_sender"])
        /\ ~objs[conns[i]].is_replicant
        /\ InSeq(queue, objs[conns[i]].subscriptions)}

RECURSIVE WriteAll(_, _, _, _)
WriteAll(o, us, queue, message) ==
    IF us = {} THEN o
    ELSE LET u == CHOOSE x \in us : TRUE
         IN  WriteAll(send_message(o, u, queue, message), us \ {u}, queue, message)


\* ------------------------------------------------- one broker: what arrives

\* The frame a client writes: construct_message(queue, json.dumps(message)).
FrameText(queue, chars) == construct_message(queue, JsonText(chars))

RECURSIVE Concat(_)
Concat(frames) == IF Len(frames) = 0 THEN <<>> ELSE Head(frames) \o Concat(Tail(frames))

\* The segments the client of connection u may write next, each with the
\* letters of its frames; k frames were written before.  Every frame
\* carries the next letter as its n.  The first connection's client is a
\* peer broker or a bridge: it publishes, plain or with the stamps of a
\* replicated message, sends the replicant handshake, and writes several
\* frames in one segment.  The others subscribe, unsubscribe and publish.
PeerSegments(u, k) ==
    LET l == Letters[k + 1]
    IN  {[data |-> FrameText(Q1, <<l>> \o st), letters |-> <<l>>] :
                st \in {<<>>, <<"P">>, <<"Q", "M">>}}
        \cup {[data |-> FrameText(Q2, <<l>>), letters |-> <<l>>]}
        \cup {[data |-> FrameText(u, <<l, "R">>), letters |-> <<l>>]}

SubscriberSegments(u, k) ==
    LET l == Letters[k + 1]
    IN  {[data |-> FrameText(u, <<l, c>>), letters |-> <<l>>] : c \in {"S", "U"}}
        \cup {[data |-> FrameText(Q1, <<l>>), letters |-> <<l>>]}

PublishRun(k, n) == [i \in 1..n |-> FrameText(Q1, <<Letters[k + i]>>)]

LetterRun(k, n) == [i \in 1..n |-> Letters[k + i]]

MultiSegments(u, k) ==
    {[data |-> Concat(PublishRun(k, n)), letters |-> LetterRun(k, n)] : n \in 2..MaxFrames}
    \cup {[data |-> Concat(PublishRun(k, MaxFrames - 1))
                        \o FrameText(u, <<Letters[k + MaxFrames], "R">>),
           letters |-> LetterRun(k, MaxFrames)]}

FanoutSegments(u, k) ==
    IF u = Uuid(1) THEN PeerSegments(u, k) \cup MultiSegments(u, k)
    ELSE SubscriberSegments(u, k)

\* A frame whose payload is any text: '+<length> ' and the payload.
RawFrame(body) == <<"+">> \o IntToText(Len(body)) \o <<" ">> \o body

\* Where a client's write of the frame '+5 q {a}' may be cut in two: inside
\* the header, at the header's end, and inside the payload.
SplitPoints == {2, 3, 5}

\* A publish frame whose bytes reach the broker in two reads: the first
\* part now, the rest as the connection's next segment.
SplitSegments(u, k) ==
    LET l == Letters[k + 1]
        whole == FrameText(Q1, <<l>>)
    IN  {[data |-> SubSeq(whole, 1, i), letters |-> <<l>>,
          rest |-> SubSeq(whole, i + 1, Len(whole))] : i \in SplitPoints}

\* Well-framed payloads the broker cannot use: JSON that does not parse,
\* JSON that is not an object, and a payload with no space.
MalformedSegments(u, k) ==
    {[data |-> construct_message(Q1, <<"{", "a">>), letters |-> <<>>, kind |-> "badjson"],
     [data |-> construct_message(Q1, <<"7">>), letters |-> <<>>, kind |-> "nondict"],
     [data |-> RawFrame(<<"q", "q">>), letters |-> <<>>, kind |-> "nospace"]}

\* Segments that are no frame: no leading '+', no space after the length,
\* a length that is no integer.
ProtocolErrorSegments(u, k) ==
    {[data |-> Tail(FrameText(Q1, <<"a">>)), letters |-> <<>>, kind |-> "noplus"],
     [data |-> <<"+", "5", "q", "{", "a", "}">>, letters |-> <<>>, kind |-> "nolength"],
     [data |-> <<"+", "x", " ">> \o Q1 \o <<" ">> \o JsonText(<<"a">>),
      letters |-> <<>>, kind |-> "nonint"]}

FramingSegments(u, k) ==
    LET l == Letters[k + 1]
    IN  {[data |-> FrameText(Q1, <<l>>), letters |-> <<l>>],
         [data |-> FrameText(u, <<l, "S">>), letters |-> <<l>>],
         [data |-> Concat(PublishRun(k, 2)), letters |-> LetterRun(k, 2)]}
        \cup SplitSegments(u, k) \cup MalformedSegments(u, k)
        \cup ProtocolErrorSegments(u, k)

\* Commands.  The first connection's client sends messages bearing several
\* command keys, and publishes; the others send commands and publishes
\* bearing the coremq_server of a replicated message.
CommandSegments(u, k) ==
    LET l == Letters[k + 1]
    IN  IF u = Uuid(1)
        THEN {[data |-> FrameText(Q1, <<l>> \o st), letters |-> <<l>>] :
                 st \in {<<>>, <<"S", "U">>, <<"O", "U">>, <<"H", "O">>, <<"R", "H">>,
                         <<"T", "R">>, <<"T">>}}
             \cup {[data |-> Concat(PublishRun(k, 2)), letters |-> LetterRun(k, 2)]}
        ELSE {[data |-> FrameText(Q1, <<l>> \o st), letters |-> <<l>>] :
                 st \in {<<"P">>, <<"S", "P">>, <<"U", "P">>, <<"O", "P">>, <<"H", "P">>,
                         <<"R", "P">>, <<"T", "P">>}}

\* Replicants: every client may send the handshake, alone or after
\* publishes in the same segment, subscribe and publish, also a payload
\* that names the first connection as its coremq_sender.
ReplicaSegments(u, k) ==
    LET l == Letters[k + 1]
    IN  {[data |-> FrameText(Q1, <<l>>), letters |-> <<l>>],
         [data |-> FrameText(Q1, <<l, "X">>), letters |-> <<l>>, kind |-> "spoofed"],
         [data |-> FrameText(u, <<l, "S">>), letters |-> <<l>>],
         [data |-> FrameText(u, <<l, "R">>), letters |-> <<l>>],
         [data |-> Concat(PublishRun(k, MaxFrames - 1))
                      \o FrameText(u, <<Letters[k + MaxFrames], "R">>),
          letters |-> LetterRun(k, MaxFrames)]}

Segments(u, k) ==
    CASE menu = "fanout" -> FanoutSegments(u, k)
      [] menu = "replicas" -> ReplicaSegments(u, k)
      [] menu = "framing" -> FramingSegments(u, k)
      [] menu = "commands" -> CommandSegments(u, k)

NoPartial == [rest |-> <<>>, n |-> NONE]

PartialOf(u) == IF u \in DOMAIN partial THEN partial[u] ELSE NoPartial

\* What the client of u writes next: the rest of the frame it wrote in
\* part, or a segment of the menu.
NextSegments(u, k) ==
    IF PartialOf(u) # NoPartial
    THEN {[data |-> PartialOf(u).rest, letters |-> <<>>]}
    ELSE Segments(u, k)

AfterSegment(u, seg) ==
    IF PartialOf(u) # NoPartial THEN [x \in DOMAIN partial \ {u} |-> partial[x]]
    ELSE IF "rest" \in DOMAIN seg THEN (u :> [rest |-> seg.rest, n |-> seg.letters[1]]) @@ partial
    ELSE partial

Marks(u, seg) ==
    IF PartialOf(u) # NoPartial THEN <<[conn |-> u, kind |-> "split", n |-> PartialOf(u).n]>>
    ELSE IF "kind" \in DOMAIN seg
    THEN <<[conn |-> u, kind |-> seg.kind,
            n |-> IF seg.letters # <<>> THEN seg.letters[1] ELSE NONE]>>
    ELSE <<>>

CodecIdle == [pc |-> "idle"]

CallIdle == [pc |-> "idle"]

\* ------------------------------------------------------ one broker: actions

\* The broker starts: nothing is connected, nothing was published.
Boot ==
    /\ py3 \in BOOLEAN
    /\ peer_allowed \in BOOLEAN
    /\ minted = 0
    /\ proto = EmptyFun
    /\ connections = EmptyFun
    /\ replicant_id_to_name = EmptyFun
    /\ history = EmptyFun
    /\ master \in {NONE, "up"}
    /\ transport = EmptyFun
    /\ out = EmptyFun
    /\ upstream = <<>>
    /\ ready = <<>>
    /\ ntodo = 0
    /\ nsegs = 0
    /\ ncloses = 0
    /\ npub = 0
    /\ sent = EmptyFun
    /\ dispatched = <<>>
    /\ published = [q \in Queues |-> <<>>]
    /\ last = NoLast
    /\ partial = EmptyFun
    /\ written = <<>>
    /\ codec = CodecIdle
    /\ call = CallIdle
    /\ dotted = FALSE
    /\ ClusterIdle

Init == menu = "fanout" /\ Boot

\* No upstream handle and an allowed peer host: neither bears on framing.
FrameInit == menu = "framing" /\ Boot /\ peer_allowed /\ master = NONE

\* No upstream handle and allowed peer hosts.
ReplicaInit == menu = "replicas" /\ Boot /\ peer_allowed /\ master = NONE

\* No upstream handle and an allowed peer host.
CommandInit == menu = "commands" /\ Boot /\ peer_allowed /\ master = NONE

Readable(u) == u \in DOMAIN transport /\ transport[u] = "open" /\ proto[u].made

\* One iteration of the loop begins: the selector is polled and the handle
\* of the event it reports, if any, joins the ready queue; every handle then
\* in the queue runs in this iteration.
Poll ==
    /\ ntodo = 0
    /\ \/ /\ ready # <<>>
          /\ ntodo' = Len(ready)
          /\ UNCHANGED <<ready, nsegs, ncloses, npub, sent, partial, written>>
       \/ /\ minted < MaxConns
          /\ ready' = Append(ready, Handle("accept", <<>>, <<>>, <<>>, EmptyMsg))
          /\ ntodo' = Len(ready')
          /\ UNCHANGED <<nsegs, ncloses, npub, sent, partial, written>>
       \/ /\ nsegs < MaxSegments
          /\ \E u \in DOMAIN transport :
                /\ Readable(u)
                /\ \E seg \in NextSegments(u, npub) :
                      /\ ready' = Append(ready, Handle("read_ready", u, seg.data, <<>>, EmptyMsg))
                      /\ npub' = npub + Len(seg.letters)
                      /\ sent' = [sent EXCEPT ![u] = Append(@, seg.letters)]
                      /\ partial' = AfterSegment(u, seg)
                      /\ written' = written \o Marks(u, seg)
          /\ nsegs' = nsegs + 1
          /\ ntodo' = Len(ready')
          /\ UNCHANGED ncloses
       \/ /\ ncloses < MaxCloses
          /\ \E u \in DOMAIN transport :
                /\ Readable(u)
                /\ ready' = Append(ready, Handle("read_ready", u, <<>>, <<>>, EmptyMsg))
          /\ ncloses' = ncloses + 1
          /\ ntodo' = Len(ready')
          /\ UNCHANGED <<nsegs, npub, sent, partial, written>>
    /\ UNCHANGED <<py3, menu, peer_allowed, minted, proto, connections, replicant_id_to_name,
                   history, master, transport, out, upstream, dispatched, published, last>>
    /\ UNCHANGED <<clusterVars, codec, call>>

Running(kind) == ntodo > 0 /\ Head(ready).kind = kind

\* The ready queue after the running handle, with the handles it scheduled.
Scheduled(handles) == Tail(ready) \o handles

\* The listening socket is readable: accept, protocol_factory() (__init__
\* registers the object), and the transport, which schedules connection_made.
Accept ==
    /\ Running("accept")
    /\ LET u == Uuid(minted + 1)
       IN  /\ minted' = minted + 1
           /\ proto' = (u :> NewProtocol) @@ proto
           /\ connections' = (u :> u) @@ connections
           /\ transport' = (u :> "open") @@ transport
           /\ out' = (u :> <<>>) @@ out
           /\ sent' = (u :> <<>>) @@ sent
           /\ ready' = Scheduled(<<Handle("connection_made", u, <<>>, <<>>, EmptyMsg)>>)
    /\ ntodo' = ntodo - 1
    /\ UNCHANGED <<py3, menu, partial, written, peer_allowed, replicant_id_to_name, history, master, upstream, nsegs, ncloses, npub,
                   dispatched, published, last>>
    /\ UNCHANGED <<clusterVars, codec, call>>

\* A connection_made that writes nothing.
connection_made_NoWelcome ==
    /\ Running("connection_made")
    /\ proto' = [proto EXCEPT ![Head(ready).conn].made = TRUE]
    /\ ready' = Scheduled(<<>>)
    /\ ntodo' = ntodo - 1
    /\ UNCHANGED <<py3, menu, partial, written, peer_allowed, minted, connections,
                   replicant_id_to_name, history, master, transport, out, upstream, nsegs,
                   ncloses, npub, sent, dispatched, published, last>>
    /\ UNCHANGED <<clusterVars, codec, call>>

\* connection_made: the welcome frame on the connection's private queue.
connection_made ==
    /\ Running("connection_made")
    /\ LET u == Head(ready).conn
       IN  /\ proto' = [proto EXCEPT ![u].made = TRUE]
           /\ out' = send_message(out, u, u,
                        [response |-> "OK: Welcome to CoreMQ server", server |-> ServerName])
    /\ ready' = Scheduled(<<>>)
    /\ ntodo' = ntodo - 1
    /\ UNCHANGED <<py3, menu, partial, written, peer_allowed, minted, connections, replicant_id_to_name, history, master,
                   transport, upstream, nsegs, ncloses, npub, sent, dispatched, published, last>>
    /\ UNCHANGED <<clusterVars, codec, call>>

\* A stamp that keeps the coremq_sender the client wrote.
StampSender_KeepClient(message, u) ==
    IF Has(message, "coremq_sender") THEN message ELSE Put(message, "coremq_sender", u)

\* message.update(coremq_sender=self.uuid): the connection's identifier
\* replaces whatever the payload held under that key.
StampSender(message, u) == Put(message, "coremq_sender", u)

\* What data_received(data) of connection u does: the handles it schedules
\* and the response it writes.  isbytes: data came from the socket (bytes);
\* otherwise it is the str that call_soon re-enters, and data.decode raises
\* AttributeError on Python 3.  An exception ends the callback where it is
\* raised; the loop logs it and the connection stays as it is.
data_received(u, data, isbytes) ==
    LET vh == validate_header(data)
        nothing == [handles |-> <<>>, error |-> NONE]
    IN  IF ~isbytes /\ py3 THEN nothing
        ELSE IF vh.err # NONE THEN nothing
        \* readexactly() returns a coroutine object, which has no decode
        ELSE IF Len(vh.data) < vh.length THEN nothing
        ELSE LET more == IF Len(vh.data) > vh.length
                         THEN <<Handle("data_received", u,
                                       SubSeq(vh.data, vh.length + 1, Len(vh.data)),
                                       <<>>, EmptyMsg)>>
                         ELSE <<>>
                 body == SubSeq(vh.data, 1, vh.length)
             IN  IF ~HasSpace(body)
                 THEN [handles |-> more, error |-> "ERROR: Missing queue or message"]
                 ELSE LET queue == SplitHead(body)
                          js == JsonLoads(SplitTail(body))
                      IN  IF ~js.ok THEN [handles |-> more, error |-> NONE]
                          ELSE IF ~js.dict
                          THEN [handles |-> more, error |-> "ERROR: Message must be a dictionary"]
                          ELSE [handles |-> more \o
                                    <<Handle("new_message", u, <<>>, queue,
                                             StampSender(js.val, u))>>,
                                error |-> NONE]

\* transport._read_ready: recv, then data_received, or on EOF close(),
\* which schedules connection_lost.
ReadReady ==
    /\ Running("read_ready")
    /\ LET u == Head(ready).conn
           data == Head(ready).data
           r == data_received(u, data, TRUE)
       IN  IF transport[u] # "open"
           THEN /\ ready' = Scheduled(<<>>)
                /\ UNCHANGED <<transport, out>>
           ELSE IF data = <<>>
           THEN /\ transport' = [transport EXCEPT ![u] = "closing"]
                /\ ready' = Scheduled(<<Handle("connection_lost", u, <<>>, <<>>, EmptyMsg)>>)
                /\ UNCHANGED out
           ELSE /\ ready' = Scheduled(r.handles)
                /\ out' = IF r.error = NONE THEN out ELSE respond(out, u, u, r.error, FALSE)
                /\ UNCHANGED transport
    /\ ntodo' = ntodo - 1
    /\ UNCHANGED <<py3, menu, partial, written, peer_allowed, minted, proto, connections, replicant_id_to_name, history, master,
                   upstream, nsegs, ncloses, npub, sent, dispatched, published, last>>
    /\ UNCHANGED <<clusterVars, codec, call>>

\* call_soon(self.data_received, more_data): the tail of a segment re-enters.
DataReceivedAgain ==
    /\ Running("data_received")
    /\ LET u == Head(ready).conn
           r == data_received(u, Head(ready).data, FALSE)
       IN  /\ ready' = Scheduled(r.handles)
           /\ out' = IF r.error = NONE THEN out ELSE respond(out, u, u, r.error, FALSE)
    /\ ntodo' = ntodo - 1
    /\ UNCHANGED <<py3, menu, partial, written, peer_allowed, minted, proto, connections, replicant_id_to_name, history, master,
                   transport, upstream, nsegs, ncloses, npub, sent, dispatched, published, last>>
    /\ UNCHANGED <<clusterVars, codec, call>>

\* A del that leaves the entry where it is.
DelKey_Keep(d, u) == d

\* del d[u]
DelKey(d, u) == [k \in DOMAIN d \ {u} |-> d[k]]

\* connection_lost: out of the registry and out of the replicant names;
\* the socket is closed.
connection_lost ==
    /\ Running("connection_lost")
    /\ LET u == Head(ready).conn
       IN  /\ connections' = DelKey(connections, u)
           /\ replicant_id_to_name' =
                 IF u \in DOMAIN replicant_id_to_name THEN DelKey(replicant_id_to_name, u)
                 ELSE replicant_id_to_name
           /\ transport' = [k \in DOMAIN transport \ {u} |-> transport[k]]
    /\ ready' = Scheduled(<<>>)
    /\ ntodo' = ntodo - 1
    /\ UNCHANGED <<py3, menu, partial, written, peer_allowed, minted, proto, history, master, out, upstream, nsegs, ncloses, npub, sent,
                   dispatched, published, last>>

    /\ UNCHANGED <<clusterVars, codec, call>>

\* A dispatcher that looks for coremq_unsubscribe before coremq_subscribe.
CommandKeys_UnsubscribeFirst ==
    <<"coremq_unsubscribe", "coremq_subscribe", "coremq_options", "coremq_gethistory",
      "coremq_replicant", "coremq_status">>

\* The first matching command key of a message, in the dispatcher's order;
\* NONE for a publish.
CommandKeys ==
    <<"coremq_subscribe", "coremq_unsubscribe", "coremq_options", "coremq_gethistory",
      "coremq_replicant", "coremq_status">>

Command(message) ==
    IF \E i \in 1..Len(CommandKeys) : Has(message, CommandKeys[i])
    THEN CommandKeys[CHOOSE i \in 1..Len(CommandKeys) :
                        /\ Has(message, CommandKeys[i])
                        /\ \A j \in 1..(i - 1) : ~Has(message, CommandKeys[j])]
    ELSE NONE

\* new_message: coremq_server is stamped on a message that has none.
StampServer(message) ==
    IF Has(message, "coremq_server") THEN message
    ELSE Put(message, "coremq_server", ServerStamp)

\* new_message: the queue the reply goes to.
ReplyTo(u, message) ==
    IF Has(message, "coremq_fwdto") /\ proto[u].is_replicant
    THEN message["coremq_fwdto"] ELSE u

\* get_status's reply
StatusReply(to) ==
    LET names == {replicant_id_to_name[i] : i \in DOMAIN replicant_id_to_name}
    IN  IF master = NONE
        THEN [coremq_fwdto |-> to, master |-> ServerName, replicants |-> names,
              connections |-> Cardinality(DOMAIN connections)]
        ELSE [replicant_of |-> "upstream", replicants |-> names,
              connections |-> Cardinality(DOMAIN connections)]

\* The new_message task of connection u runs to its first yield: the
\* command handlers run whole; a publish calls store_message, yields the
\* broadcast coroutine (the loop runs it as a task of its own) and waits.
new_message ==
    /\ Running("new_message")
    /\ LET u == Head(ready).conn
           queue == Head(ready).queue
           quiet == Has(Head(ready).message, "coremq_server")
           message == StampServer(Head(ready).message)
           to == ReplyTo(u, message)
           cmd == Command(message)
           registered == u \in DOMAIN connections
           keyerror == respond(out, u, to, "ERROR: KeyError", quiet)
       IN  /\ dispatched' = Append(dispatched,
                                   [conn |-> u, queue |-> queue,
                                    n |-> IF Has(message, "n") THEN message["n"] ELSE NONE,
                                    sender |-> IF Has(message, "coremq_sender")
                                               THEN message["coremq_sender"] ELSE NONE,
                                    keys |-> {k \in DOMAIN message :
                                                \E i \in 1..Len(CommandKeys) : CommandKeys[i] = k},
                                    handled |-> cmd])
           /\ CASE cmd = "coremq_subscribe" ->
                     LET arg == message["coremq_subscribe"]
                     IN  /\ IF Len(arg.v) # 0 /\ ~registered
                            THEN /\ out' = keyerror
                                 /\ UNCHANGED proto
                            ELSE /\ proto' = [proto EXCEPT ![u].subscriptions = subscribe(@, arg)]
                                 /\ out' = respond(out, u, to, "OK: Subscribe successful", quiet)
                         /\ ready' = Scheduled(<<>>)
                         /\ UNCHANGED <<replicant_id_to_name, history, published>>
                [] cmd = "coremq_unsubscribe" ->
                     LET arg == message["coremq_unsubscribe"]
                     IN  /\ IF Len(arg.v) # 0 /\ ~registered
                            THEN /\ out' = keyerror
                                 /\ UNCHANGED proto
                            ELSE /\ proto' = [proto EXCEPT ![u].subscriptions = unsubscribe(@, arg)]
                                 /\ out' = respond(out, u, to, "OK: Unsubscribe successful", quiet)
                         /\ ready' = Scheduled(<<>>)
                         /\ UNCHANGED <<replicant_id_to_name, history, published>>
                [] cmd = "coremq_options" ->
                     /\ IF ~registered
                        THEN /\ out' = keyerror
                             /\ UNCHANGED proto
                        ELSE /\ proto' = [proto EXCEPT
                                            ![u].options = set_options(@, message["coremq_options"])]
                             /\ out' = respond(out, u, to, "OK: Options set", quiet)
                     /\ ready' = Scheduled(<<>>)
                     /\ UNCHANGED <<replicant_id_to_name, history, published>>
                [] cmd = "coremq_gethistory" ->
                     /\ out' = send_message(out, u, to,
                                  [history |-> HistoryResult(history, message["coremq_gethistory"])])
                     /\ ready' = Scheduled(<<>>)
                     /\ UNCHANGED <<proto, replicant_id_to_name, history, published>>
                [] cmd = "coremq_replicant" ->
                     \* begin_replication
                     /\ IF peer_allowed
                        THEN /\ replicant_id_to_name' =
                                   IF u \in DOMAIN replicant_id_to_name THEN replicant_id_to_name
                                   ELSE (u :> message["coremq_replicant"]) @@ replicant_id_to_name
                             /\ proto' = [proto EXCEPT ![u].is_replicant = TRUE]
                             /\ out' = respond(out, u, u, "OK: Replication request successful", FALSE)
                        ELSE /\ out' = respond(out, u, u, "ERROR: Not allowed to be a replicant", FALSE)
                             /\ UNCHANGED <<proto, replicant_id_to_name>>
                     /\ ready' = Scheduled(<<>>)
                     /\ UNCHANGED <<history, published>>
                [] cmd = "coremq_status" ->
                     /\ out' = send_message(out, u, to, StatusReply(to))
                     /\ ready' = Scheduled(<<>>)
                     /\ UNCHANGED <<proto, replicant_id_to_name, history, published>>
                [] OTHER ->
                     /\ history' = CallCoroutineUnscheduled(history,
                                                            store_message(history, queue, message))
                     /\ published' = IF queue \in Queues /\ Has(message, "n")
                                     THEN [published EXCEPT ![queue] = Append(@, message["n"])]
                                     ELSE published
                     /\ ready' = Scheduled(<<Handle("broadcast", u, [to |-> to, quiet |-> quiet],
                                                    queue, message)>>)
                     /\ UNCHANGED <<proto, replicant_id_to_name, out>>
    /\ ntodo' = ntodo - 1
    /\ UNCHANGED <<py3, menu, partial, written, peer_allowed, minted, connections, master, transport, upstream, nsegs, ncloses, npub, sent,
                   last>>
    /\ UNCHANGED <<clusterVars, codec, call>>

\* The registry as broadcast finds it: each registered connection's
\* replicant flag and subscriptions.
Snapshot ==
    [i \in DOMAIN connections |->
        [is_replicant |-> proto[connections[i]].is_replicant,
         subscriptions |-> proto[connections[i]].subscriptions]]

\* The broadcast task runs whole (the function has no yield).  A key of
\* replicant_id_to_name that the registry lacks raises KeyError in the loop
\* over the replicants: the replicants the dict gave before it were written
\* to, the subscribers are not reached.
broadcast ==
    /\ Running("broadcast")
    /\ LET u == Head(ready).conn
           queue == Head(ready).queue
           message == Head(ready).message
           up == UpstreamForward(master, queue, message)
           m1 == AfterUpstream(master, message)
           live == {i \in DOMAIN replicant_id_to_name : i \in DOMAIN connections}
           stale == DOMAIN replicant_id_to_name \ live
       IN  \E before \in (IF stale = {} THEN {live} ELSE SUBSET live) :
              LET rmap == [i \in before |-> replicant_id_to_name[i]]
                  m2 == StampMaster(master, rmap, ServerName, m1)
                  reps == ReplicantRecipients(rmap, m2)
                  subs == IF stale = {}
                          THEN SubscriberRecipients(connections, proto, queue, m2)
                          ELSE {}
              IN  /\ upstream' = upstream \o up
                  /\ out' = WriteAll(WriteAll(out, reps, queue, m2), subs, queue, m2)
                  /\ last' = [queue |-> queue, message |-> m2,
                              sender |-> IF Has(m2, "coremq_sender") THEN m2["coremq_sender"]
                                         ELSE <<>>,
                              sender_replicant |-> proto[u].is_replicant,
                              registry |-> Snapshot,
                              names |-> replicant_id_to_name,
                              replicants |-> reps, subscribers |-> subs,
                              up |-> up # <<>>, n |-> last.n + 1]
                  /\ ready' = Scheduled(<<Handle("wakeup", u,
                                    [to |-> Head(ready).data.to, quiet |-> Head(ready).data.quiet,
                                     raised |-> stale # {}], queue, m2)>>)
    /\ ntodo' = ntodo - 1
    /\ UNCHANGED <<py3, menu, partial, written, peer_allowed, minted, proto, connections, replicant_id_to_name, history, master,
                   transport, nsegs, ncloses, npub, sent, dispatched, published>>
    /\ UNCHANGED <<clusterVars, codec, call>>

\* The broadcast task is done and new_message resumes: the reply, or the
\* error reply of the except clause.
Wakeup ==
    /\ Running("wakeup")
    /\ LET u == Head(ready).conn
           d == Head(ready).data
       IN  out' = respond(out, u, d.to,
                          IF d.raised THEN "ERROR: KeyError" ELSE "OK: Message sent", d.quiet)
    /\ ready' = Scheduled(<<>>)
    /\ ntodo' = ntodo - 1
    /\ UNCHANGED <<py3, menu, partial, written, peer_allowed, minted, proto, connections, replicant_id_to_name, history, master,
                   transport, upstream, nsegs, ncloses, npub, sent, dispatched, published, last>>
    /\ UNCHANGED <<clusterVars, codec, call>>

BrokerNext ==
    \/ Poll
    \/ Accept
    \/ connection_made
    \/ ReadReady
    \/ DataReceivedAgain
    \/ new_message
    \/ broadcast
    \/ Wakeup
    \/ connection_lost



vars == <<brokerVars, clusterVars, codec, call>>

Next == BrokerNext

Spec == Init /\ [][Next]_vars

\* The same broker, its clients writing frames in parts and malformed frames.
FrameSpec == FrameInit /\ [][Next]_vars

\* The same broker, every client of which may become a replicant.
ReplicaSpec == ReplicaInit /\ [][Next]_vars

\* The same broker, its clients writing commands.
CommandSpec == CommandInit /\ [][Next]_vars

\* ------------------------------------------------------------ the cluster

\* The default port, 6747, as text.
PortText == <<"6", "7", "4", "7">>

\* socket.gethostname().lower() on broker b's host.
HostName(b) == IF dotted THEN <<b, ".", "x">> ELSE <<b>>

\* ServerState.cluster_nodes: the hosts by name, without a port.
cluster_nodes == [i \in 1..Len(BrokerOrder) |-> HostName(BrokerOrder[i])]

\* '%s:%s' % (ServerState.name, ServerState.listen_address[1])
Stamp(b) == HostName(b) \o <<":">> \o PortText

\* s.split(ch, 1)[0]
FirstField(s, ch) ==
    IF \E i \in 1..Len(s) : s[i] = ch
    THEN SubSeq(s, 1, (CHOOSE i \in 1..Len(s) : s[i] = ch /\ \A j \in 1..(i - 1) : s[j] # ch) - 1)
    ELSE s

\* s.split(ch)[-1]
LastField(s, ch) ==
    IF \E i \in 1..Len(s) : s[i] = ch
    THEN SubSeq(s, (CHOOSE i \in 1..Len(s) : s[i] = ch /\ \A j \in (i + 1)..Len(s) : s[j] # ch) + 1,
                Len(s))
    ELSE s

\* find_master: sp, the entry with the default port when it names none.
WithPort(s) == IF \E i \in 1..Len(s) : s[i] = ":" THEN s ELSE s \o <<":">> \o PortText

\* find_master: the test that puts entry s among the removals.
IsSelf(b, s) ==
    /\ FirstField(HostName(b), ".") = FirstField(WithPort(s), ".")
    /\ PortText = LastField(WithPort(s), ":")

\* find_master: the servers left after the removals.
Servers(b) == SelectSeq(cluster_nodes, LAMBDA s : ~IsSelf(b, s))

\* The broker an entry's host name resolves to.
EntryBroker(s) == CHOOSE b \in Brokers : HostName(b) = FirstField(s, ":")

\* begin_replication: the test on the peer's host name.  peer_allowed is
\* FALSE in the runs where the name the peer's address resolves to is not
\* the name the configuration lists it under.
Allowed(b, peer) ==
    LET allowed == {FirstField(FirstField(cluster_nodes[i], ":"), ".") : i \in 1..Len(cluster_nodes)}
    IN  peer_allowed /\ FirstField(HostName(peer), ".") \in allowed

\* The identifier of broker b's local client connection.
ClientId(b) == <<"c", b>>

NewLink(l, c, srv, hs) ==
    [cli |-> c, srv |-> srv, open |-> TRUE,
     uuid_known |-> FALSE,  \* the client end has had its first message
     hs |-> hs,             \* begin_replication waits on connected_future
     toSrv |-> <<>>,
     toCli |-> <<[queue |-> Uuid(l),
                  message |-> [response |-> "OK: Welcome to CoreMQ server", server |-> HostName(srv)],
                  route |-> <<>>]>>]

\* The one broker of Spec, idle.
BrokerIdle ==
    /\ py3 = FALSE
    /\ minted = 0
    /\ proto = EmptyFun
    /\ connections = EmptyFun
    /\ replicant_id_to_name = EmptyFun
    /\ history = EmptyFun
    /\ master = NONE
    /\ transport = EmptyFun
    /\ out = EmptyFun
    /\ upstream = <<>>
    /\ ready = <<>>
    /\ ntodo = 0
    /\ nsegs = 0
    /\ ncloses = 0
    /\ npub = 0
    /\ sent = EmptyFun
    /\ dispatched = <<>>
    /\ published = [q \in Queues |-> <<>>]
    /\ last = NoLast
    /\ menu = "fanout"
    /\ partial = EmptyFun
    /\ written = <<>>

ClusterInit ==
    /\ dotted \in BOOLEAN
    /\ peer_allowed = TRUE
    /\ codec = CodecIdle
    /\ call = CallIdle
    /\ ClusterIdle
    /\ BrokerIdle

\* main: the listening socket is made, then find_master starts when
\* cluster_nodes leaves a server to try.
Start(b) ==
    /\ phase[b] = "down"
    /\ phase' = [phase EXCEPT ![b] = "up"]
    /\ task' = [task EXCEPT ![b] = IF Len(Servers(b)) = 0 THEN NoTask
                                  ELSE [kind |-> "find", idx |-> 1]]
    /\ UNCHANGED <<dotted, cmaster, fconn, connected_once, reg, rnames, links,
                   ndispatch, ncrashes, npublished, copies, replies, lastb>>
    /\ UNCHANGED <<brokerVars, codec, call>>

\* A callback that leaves the master handle as it is.
promote_to_master_Keep(handles, b) == handles

\* promote_to_master in the process of broker b: ServerState.master = None
promote_to_master(handles, b) == [handles EXCEPT ![b] = 0]

\* factory.connect() tries its next server.  A server that listens accepts:
\* its protocol object is registered and writes the welcome.  After the
\* connect of find_master the link becomes ServerState.master and
\* begin_replication waits for the welcome; the connect that follows a lost
\* connection changes the factory only.  When no server is left,
\* lost_connection_callback (promote_to_master) runs if the factory was
\* connected once.
Connect(b) ==
    /\ phase[b] = "up"
    /\ task[b].kind # NONE
    /\ LET servers == Servers(b)
           t == EntryBroker(servers[task[b].idx])
           l == Len(links) + 1
           found == task[b].kind = "find"
       IN  IF phase[t] = "up"
           THEN /\ Len(links) < MaxLinks
                /\ links' = Append(links, NewLink(l, b, t, found))
                /\ reg' = [reg EXCEPT ![t] = (Uuid(l) :> [is_replicant |-> FALSE,
                                                         subscriptions |-> <<>>]) @@ @]
                /\ fconn' = [fconn EXCEPT ![b] = l]
                /\ connected_once' = [connected_once EXCEPT ![b] = TRUE]
                /\ cmaster' = IF found THEN [cmaster EXCEPT ![b] = l] ELSE cmaster
                /\ task' = [task EXCEPT ![b] = NoTask]
           ELSE IF task[b].idx < Len(servers)
           THEN /\ task' = [task EXCEPT ![b].idx = @ + 1]
                /\ UNCHANGED <<links, reg, fconn, connected_once, cmaster>>
           ELSE /\ task' = [task EXCEPT ![b] = NoTask]
                /\ fconn' = [fconn EXCEPT ![b] = 0]
                /\ cmaster' = IF ~found /\ connected_once[b]
                              THEN promote_to_master(cmaster, b) ELSE cmaster
                /\ UNCHANGED <<links, reg, connected_once>>
    /\ UNCHANGED <<dotted, phase, rnames, ndispatch, ncrashes, npublished, copies, replies, lastb>>
    /\ UNCHANGED <<brokerVars, codec, call>>

\* 'Replication' in response, for the responses a broker writes.
ContainsReplication(text) == text \in {"OK: Replication request successful"}

\* response.startswith('OK:'), for the responses a broker writes.
StartsWithOK(text) ==
    text \in {"OK: Replication request successful", "OK: Welcome to CoreMQ server",
              "OK: Message sent"}

\* new_message and broadcast of connection c of broker b for a message that
\* is no command: what is written upstream, the frame of the copies and who
\* gets one, and the reply.
Fan(b, c, queue, msg, route) ==
    LET quiet == Has(msg, "coremq_server")
        m0 == IF quiet THEN msg ELSE Put(msg, "coremq_server", Stamp(b))
        to == IF Has(m0, "coremq_fwdto") /\ reg[b][c].is_replicant THEN m0["coremq_fwdto"] ELSE c
        mst == IF cmaster[b] = 0 THEN NONE ELSE "up"
        up == UpstreamForward(mst, queue, m0)
        m2 == StampMaster(mst, rnames[b], HostName(b), AfterUpstream(mst, m0))
        here == Append(route, b)
    IN  [up |-> [i \in 1..Len(up) |-> [queue |-> up[i].queue, message |-> up[i].message,
                                       route |-> here]],
         frame |-> [queue |-> queue, message |-> m2, route |-> here],
         reps |-> ReplicantRecipients(rnames[b], m2),
         subs |-> SubscriberRecipients([i \in DOMAIN reg[b] |-> i], reg[b], queue, m2),
         reply |-> IF quiet THEN <<>>
                   ELSE <<[queue |-> to, message |-> [response |-> "OK: Message sent"],
                           route |-> <<>>]>>]

\* The writes of a broadcast of broker b on the links ls: upstream on the
\* master handle, to the replicants, to the subscribers, and the reply on
\* connection c.  A closed transport drops what is written.
LinkWrites(ls, b, c, fan) ==
    [l \in DOMAIN ls |->
        IF ~ls[l].open THEN ls[l]
        ELSE [ls[l] EXCEPT
                !.toSrv = @ \o (IF cmaster[b] = l THEN fan.up ELSE <<>>),
                !.toCli = @ \o (IF Uuid(l) \in fan.reps THEN <<fan.frame>> ELSE <<>>)
                            \o (IF Uuid(l) \in fan.subs THEN <<fan.frame>> ELSE <<>>)
                            \o (IF Uuid(l) = c THEN fan.reply ELSE <<>>)]]

\* A publish handled by connection c of broker b; via: it came through the
\* replication client.
Inject(ls, b, c, queue, msg, route, via) ==
    LET fan == Fan(b, c, queue, msg, route)
    IN  /\ links' = LinkWrites(ls, b, c, fan)
        /\ copies' = [copies EXCEPT ![b] = @ + (IF ClientId(b) \in fan.subs THEN 1 ELSE 0)]
        /\ replies' = [replies EXCEPT ![b] = @ + (IF c = ClientId(b) THEN Len(fan.reply) ELSE 0)]
        /\ lastb' = [broker |-> b, via |-> via, up |-> fan.up # <<>>,
                     stamped |-> Has(msg, "coremq_master"), published |-> Has(msg, "n"),
                     route |-> Append(route, b),
                     fwd |-> Has(msg, "coremq_fwdto") /\ reg[b][c].is_replicant,
                     replied |-> fan.reply # <<>>,
                     response |-> IF Has(msg, "response") THEN msg["response"] ELSE NONE,
                     queue |-> queue,
                     stored |-> queue \in DOMAIN CallCoroutineUnscheduled(
                                                     EmptyFun, store_message(EmptyFun, queue, msg))]

\* The replication client of link l receives a frame.  The first one gives
\* it its identifier and completes connected_future, which sends the
\* handshake when find_master asked for it.  ReplicationClientProtocol.new_message
\* drops the OK of the handshake and hands anything else to new_message of
\* the first connection of the registry (a dict: any of them), if there is one.
ClientRecv(l) ==
    /\ l \in 1..Len(links)
    /\ links[l].open
    /\ links[l].toCli # <<>>
    /\ ndispatch < MaxDispatch
    /\ LET k == links[l]
           b == k.cli
           f == Head(k.toCli)
           uuid == IF k.uuid_known THEN Uuid(l) ELSE f.queue
           hsframe == IF ~k.uuid_known /\ k.hs
                      THEN <<[queue |-> uuid, message |-> [coremq_replicant |-> Stamp(b)],
                              route |-> <<>>]>>
                      ELSE <<>>
           ls == [links EXCEPT ![l] = [k EXCEPT !.toCli = Tail(@), !.uuid_known = TRUE,
                                                !.toSrv = @ \o hsframe]]
       IN  /\ phase[b] = "up"
           /\ IF /\ f.queue = uuid
                 /\ Has(f.message, "response")
                 /\ ContainsReplication(f.message["response"])
              THEN /\ links' = ls
                   /\ phase' = IF StartsWithOK(f.message["response"]) THEN phase
                               ELSE [phase EXCEPT ![b] = "stopped"]
                   /\ UNCHANGED <<copies, replies, lastb>>
              ELSE IF DOMAIN reg[b] = {}
              THEN /\ links' = ls
                   /\ UNCHANGED <<phase, copies, replies, lastb>>
              ELSE /\ \E c \in DOMAIN reg[b] : Inject(ls, b, c, f.queue, f.message, f.route, TRUE)
                   /\ UNCHANGED phase
    /\ ndispatch' = ndispatch + 1
    /\ UNCHANGED <<dotted, task, cmaster, fconn, connected_once, reg, rnames, ncrashes, npublished>>
    /\ UNCHANGED <<brokerVars, codec, call>>

\* The server end of link l receives a frame: data_received stamps
\* coremq_sender; begin_replication for the handshake, a publish otherwise.
ServerRecv(l) ==
    /\ l \in 1..Len(links)
    /\ links[l].open
    /\ links[l].toSrv # <<>>
    /\ ndispatch < MaxDispatch
    /\ LET k == links[l]
           b == k.srv
           c == Uuid(l)
           f == Head(k.toSrv)
           msg == StampSender(f.message, c)
           ls == [links EXCEPT ![l].toSrv = Tail(@)]
           answer(text) == [ls EXCEPT ![l].toCli =
                               Append(@, [queue |-> c, message |-> [response |-> text],
                                          route |-> <<>>])]
       IN  /\ phase[b] = "up"
           /\ IF Has(msg, "coremq_replicant")
              THEN /\ IF Allowed(b, k.cli)
                      THEN /\ rnames' = [rnames EXCEPT ![b] =
                                            IF c \in DOMAIN @ THEN @
                                            ELSE (c :> msg["coremq_replicant"]) @@ @]
                           /\ reg' = [reg EXCEPT ![b][c].is_replicant = TRUE]
                           /\ links' = answer("OK: Replication request successful")
                      ELSE /\ links' = answer("ERROR: Not allowed to be a replicant")
                           /\ UNCHANGED <<rnames, reg>>
                   /\ UNCHANGED <<copies, replies, lastb>>
              ELSE /\ Inject(ls, b, c, f.queue, msg, f.route, FALSE)
                   /\ UNCHANGED <<rnames, reg>>
    /\ ndispatch' = ndispatch + 1
    /\ UNCHANGED <<dotted, phase, task, cmaster, fconn, connected_once, ncrashes, npublished>>
    /\ UNCHANGED <<brokerVars, codec, call>>

\* A local client connects to broker b and subscribes to Q1.
ClientConnect(b) ==
    /\ phase[b] = "up"
    /\ ClientId(b) \notin DOMAIN reg[b]
    /\ reg' = [reg EXCEPT ![b] = (ClientId(b) :> [is_replicant |-> FALSE,
                                                  subscriptions |-> subscribe(<<>>, NameList(<<Q1>>))])
                                 @@ @]
    /\ UNCHANGED <<dotted, phase, task, cmaster, fconn, connected_once, rnames, links,
                   ndispatch, ncrashes, npublished, copies, replies, lastb>>
    /\ UNCHANGED <<brokerVars, codec, call>>

\* The local client of broker b publishes on Q1.
ClientPublish(b) ==
    /\ phase[b] = "up"
    /\ ClientId(b) \in DOMAIN reg[b]
    /\ npublished < MaxPublishes
    /\ ndispatch < MaxDispatch
    /\ Inject(links, b, ClientId(b), Q1,
              Put(JsonLoads(JsonText(<<Letters[npublished + 1]>>)).val, "coremq_sender", ClientId(b)),
              <<>>, FALSE)
    /\ npublished' = npublished + 1
    /\ ndispatch' = ndispatch + 1
    /\ UNCHANGED <<dotted, phase, task, cmaster, fconn, connected_once, reg, rnames, ncrashes>>
    /\ UNCHANGED <<brokerVars, codec, call>>

\* The links that end at broker b.
LinksOf(b) == {l \in 1..Len(links) : links[l].open /\ (links[l].cli = b \/ links[l].srv = b)}

\* Broker b's process ends.  Its sockets close: the brokers it was connected
\* to run connection_lost for the server ends (out of the registry and the
\* replicant names), and the client ends start factory.connect() again.
Crash(b) ==
    /\ phase[b] = "up"
    /\ ncrashes < MaxCrashes
    /\ LET gone == LinksOf(b)
           lost(t) == {Uuid(l) : l \in {x \in gone : links[x].srv = t}}
           orphan(t) == \E l \in gone : links[l].cli = t
       IN  /\ links' = [l \in DOMAIN links |->
                           IF l \in gone
                           THEN [links[l] EXCEPT !.open = FALSE, !.toSrv = <<>>, !.toCli = <<>>]
                           ELSE links[l]]
           /\ reg' = [t \in Brokers |->
                         IF t = b THEN EmptyFun
                         ELSE [i \in DOMAIN reg[t] \ lost(t) |-> reg[t][i]]]
           /\ rnames' = [t \in Brokers |->
                            IF t = b THEN EmptyFun
                            ELSE [i \in DOMAIN rnames[t] \ lost(t) |-> rnames[t][i]]]
           /\ task' = [t \in Brokers |->
                          IF t = b THEN NoTask
                          ELSE IF orphan(t) THEN [kind |-> "reconnect", idx |-> 1]
                          ELSE task[t]]
           /\ fconn' = [t \in Brokers |-> IF t = b \/ orphan(t) THEN 0 ELSE fconn[t]]
    /\ phase' = [phase EXCEPT ![b] = "down"]
    /\ cmaster' = [cmaster EXCEPT ![b] = 0]
    /\ connected_once' = [connected_once EXCEPT ![b] = FALSE]
    /\ ncrashes' = ncrashes + 1
    /\ UNCHANGED <<dotted, ndispatch, npublished, copies, replies, lastb>>
    /\ UNCHANGED <<brokerVars, codec, call>>

ClusterNext ==
    \/ \E b \in Brokers : Start(b)
    \/ \E b \in Brokers : Connect(b)
    \/ \E l \in 1..MaxLinks : ClientRecv(l)
    \/ \E l \in 1..MaxLinks : ServerRecv(l)
    \/ \E b \in Brokers : ClientConnect(b)
    \/ \E b \in Brokers : ClientPublish(b)
    \/ \E b \in Brokers : Crash(b)

ClusterSpec == ClusterInit /\ [][ClusterNext]_vars

\* The cluster where the brokers refuse the replicant handshake.
RefusalInit ==
    /\ dotted \in BOOLEAN
    /\ peer_allowed = FALSE
    /\ codec = CodecIdle
    /\ call = CallIdle
    /\ ClusterIdle
    /\ BrokerIdle

RefusalSpec == RefusalInit /\ [][ClusterNext]_vars

\* ------------------------------------------------------ the framing codec

\* The queue names the round trip is tried on: legal ones, in ASCII and
\* outside it, short and long enough to pass the first recv, and two that
\* send_message refuses.
CodecQueues ==
    {<<"q">>, <<"q", "1">>, <<"+", "5">>, <<NonAscii>>,
     <<"q", "q", "q", "q", "q", "q", "q", "q">>,
     <<"q", "q", "q", "q", "q", NonAscii>>,
     <<>>, <<"q", " ", "r">>}

CodecEntries == {"a", "b", "S", "T", "P", "M"}

\* The dictionaries of up to two entries.
CodecMessages ==
    {EmptyMsg} \cup {JsonObject(<<x>>) : x \in CodecEntries}
    \cup {JsonObject(<<x, y>>) : x \in CodecEntries, y \in CodecEntries}

CodecInit ==
    /\ codec \in {[pc |-> "start", queue |-> q, message |-> m] :
                      q \in CodecQueues, m \in CodecMessages}
    /\ call = CallIdle
    /\ BrokerIdle
    /\ peer_allowed = TRUE
    /\ dotted = FALSE
    /\ ClusterIdle

\* send_message(socket, queue, message)
Emit ==
    /\ codec.pc = "start"
    /\ LET r == common_send_message(codec.queue, codec.message)
       IN  codec' = [pc |-> IF r.err = NONE THEN "sent" ELSE "refused",
                     queue |-> codec.queue, message |-> codec.message, data |-> r.data]
    /\ UNCHANGED <<brokerVars, clusterVars, call>>

\* get_message(socket) at the other end
Parse ==
    /\ codec.pc = "sent"
    /\ codec' = [pc |-> "parsed", queue |-> codec.queue, message |-> codec.message,
                 data |-> codec.data, result |-> get_message(codec.data)]
    /\ UNCHANGED <<brokerVars, clusterVars, call>>

CodecNext == Emit \/ Parse

CodecSpec == CodecInit /\ [][CodecNext]_vars

\* ------------------------------------------- queue names given to commands

QR == <<"q", "r">>

\* The subscriptions a connection may hold and the queues the history may
\* hold when a command arrives.
CallSubscriptions == {<<>>, <<Q1>>, <<QR>>, <<Q1, QR>>, <<Q2, Q1>>}

CallHistories ==
    {EmptyFun} \cup {[q \in qs |-> <<JsonObject(<<"a">>)>>] : qs \in {{Q1}, {QR}, {Q1, Q2, QR}}}

CallInit ==
    /\ call \in {[pc |-> "start", op |-> o, name |-> n, subs |-> ss, history |-> h] :
                     o \in {"subscribe", "unsubscribe", "get_history"},
                     n \in {Q1, Q2, QR}, ss \in CallSubscriptions, h \in CallHistories}
    /\ codec = CodecIdle
    /\ BrokerIdle
    /\ peer_allowed = TRUE
    /\ dotted = FALSE
    /\ ClusterIdle

\* What the handler op leaves when it is given arg.
Handler(op, arg, subs, h) ==
    CASE op = "subscribe" -> subscribe(subs, arg)
      [] op = "unsubscribe" -> unsubscribe(subs, arg)
      [] op = "get_history" -> HistoryResult(h, arg)

\* The handler runs on the bare name and on the one-element list.
Call ==
    /\ call.pc = "start"
    /\ call' = [pc |-> "done", op |-> call.op, name |-> call.name, subs |-> call.subs,
                history |-> call.history,
                string |-> Handler(call.op, NameString(call.name), call.subs, call.history),
                list |-> Handler(call.op, NameList(<<call.name>>), call.subs, call.history)]
    /\ UNCHANGED <<brokerVars, clusterVars, codec>>

CallSpec == CallInit /\ [][Call]_vars

\* ------------------------------------------------------------ properties

Range(s) == {s[i] : i \in 1..Len(s)}

Quiescent == ready = <<>>

\* The last n elements of s.
LastN(s, n) == IF Len(s) <= n THEN s ELSE SubSeq(s, Len(s) - n + 1, Len(s))

\* The sequence numbers of the messages history holds for queue q.
HistoryLetters(q) ==
    IF q \in DOMAIN history THEN [i \in 1..Len(history[q]) |-> history[q][i]["n"]] ELSE <<>>

\* C1: the history of every queue holds the queue's last HistoryMax published
\* messages, oldest first.
C1_HistoryHoldsLastPublishes ==
    \A q \in Queues : HistoryLetters(q) = LastN(published[q], HistoryMax)

\* The connections the last broadcast wrote a copy to.
LastRecipients == last.replicants \cup last.subscribers

\* C2, as stated: no broadcast delivers a copy to the connection that sent
\* the message.
C2_NoDeliveryToSender ==
    last.n > 0 => last.sender \notin LastRecipients

\* C2, amended: no broadcast delivers a copy to the connection that sent the
\* message when that connection is not flagged as a replicant.
C2_NoDeliveryToPlainSender ==
    (last.n > 0 /\ ~last.sender_replicant) => last.sender \notin LastRecipients

\* C2: a broadcast of a message whose sender is registered, not a replicant
\* and subscribed to the queue of the message.
C2_SubscribedSenderPublished ==
    /\ last.n > 0
    /\ ~last.sender_replicant
    /\ last.sender \in DOMAIN last.registry
    /\ InSeq(last.queue, last.registry[last.sender].subscriptions)

\* C3: no broadcast delivers a copy to a replicant whose declared name is the
\* coremq_server of the message.
C3_NoEchoToNamedReplicant ==
    last.n > 0 =>
        \A u \in LastRecipients :
            u \in DOMAIN last.names => last.names[u] # last.message["coremq_server"]

\* C3: a broadcast of a message whose coremq_server is the declared name of a
\* registered replicant.
C3_ReplicantNamedBySeen ==
    /\ last.n > 0
    /\ \E u \in DOMAIN last.names \cap DOMAIN last.registry :
          last.names[u] = last.message["coremq_server"]

\* The copies of published message n among the frames written to u.
Copies(u, n) ==
    {i \in 1..Len(out[u]) : Has(out[u][i].message, "coremq_sender")
                            /\ Has(out[u][i].message, "n") /\ out[u][i].message["n"] = n}

\* C5: a broadcast writes to exactly the registered connections other than
\* the sender that are not replicants and are subscribed to the queue, and
\* no connection gets two copies of one message.
C5_ExactlyTheSubscribers ==
    /\ last.n > 0 =>
          last.subscribers =
             {i \in DOMAIN last.registry :
                 /\ i # last.sender
                 /\ ~last.registry[i].is_replicant
                 /\ InSeq(last.queue, last.registry[i].subscriptions)}
    /\ \A u \in DOMAIN out : \A i \in 1..Len(out[u]) :
          Has(out[u][i].message, "n") => Cardinality(Copies(u, out[u][i].message["n"])) <= 1

\* C6: the copies a connection receives of the messages of one sender come
\* in the order the sender wrote them (the sequence numbers grow).
C6_PerSenderOrder ==
    \A u \in DOMAIN out : \A i, j \in 1..Len(out[u]) :
        LET a == out[u][i].message
            b == out[u][j].message
        IN  (/\ i < j
             /\ Has(a, "coremq_sender") /\ Has(a, "n")
             /\ Has(b, "coremq_sender") /\ Has(b, "n")
             /\ a["coremq_sender"] = b["coremq_sender"])
            => LetterIndex(a["n"]) < LetterIndex(b["n"])

\* C7: with no callback pending the registry holds exactly the connections
\* whose transport is open, each under its own identifier, and every
\* identifier was minted once; connection_lost takes the connection out of
\* the registry and out of the replicant names.
C7_RegistryAtQuiescence ==
    Quiescent =>
        /\ DOMAIN connections = {u \in DOMAIN transport : transport[u] = "open"}
        /\ DOMAIN connections = DOMAIN transport
        /\ \A u \in DOMAIN connections : connections[u] = u
        /\ DOMAIN connections \subseteq {Uuid(i) : i \in 1..minted}
        /\ Cardinality({Uuid(i) : i \in 1..minted}) = minted

C7_LostLeavesRegistry ==
    [][Running("connection_lost") =>
          /\ Head(ready).conn \notin DOMAIN connections'
          /\ Head(ready).conn \notin DOMAIN replicant_id_to_name']_vars

C7_RegistryIsOpenConnections == []C7_RegistryAtQuiescence /\ C7_LostLeavesRegistry

\* C7: nothing is pending, a connection is gone and another is still there.
C7_SomeLostSomeOpen ==
    /\ Quiescent
    /\ Cardinality(DOMAIN connections) < minted
    /\ DOMAIN connections # {}

\* C4: where the brokers' names are fully qualified, no broadcast of a
\* client's publish forwards upstream a message that bears coremq_master or
\* that came from the master through the replication client.
C4_NothingFromMasterGoesUp ==
    dotted /\ lastb.published => ~(lastb.up /\ (lastb.stamped \/ lastb.via))

\* Nothing is in flight between the brokers and no connect is in progress.
ClusterQuiescent ==
    /\ \A b \in Brokers : task[b].kind = NONE
    /\ \A l \in 1..Len(links) : links[l].toSrv = <<>> /\ links[l].toCli = <<>>

\* Broker b runs and has no master handle.
ActsAsMaster(b) == phase[b] = "up" /\ cmaster[b] = 0

\* Broker b's master handle is an open connection that the broker at its
\* other end has recorded as a replicant.
ActsAsReplicant(b) ==
    /\ phase[b] = "up"
    /\ cmaster[b] # 0
    /\ links[cmaster[b]].open
    /\ Uuid(cmaster[b]) \in DOMAIN rnames[links[cmaster[b]].srv]

\* C8: where the brokers' names are fully qualified, at every quiescent
\* point at most one running broker acts as master and every other running
\* broker is a replicant.
C8_OneMasterOthersReplicants ==
    dotted /\ ClusterQuiescent =>
        /\ Cardinality({b \in Brokers : ActsAsMaster(b)}) <= 1
        /\ \A b \in Brokers : phase[b] = "up" /\ ~ActsAsMaster(b) => ActsAsReplicant(b)

\* C9: where the brokers' names are fully qualified (each broker takes
\* itself out of cluster_nodes), a client's publish never comes to a broker
\* that has broadcast it before.
C9_NoBrokerTwiceOnRoute ==
    dotted /\ lastb.published =>
        \A i, j \in 1..Len(lastb.route) : i # j => lastb.route[i] # lastb.route[j]

\* The sequence numbers of the messages of connection u that were
\* dispatched to new_message, among the given ones, in dispatch order.
DispatchedAmong(u, letters) ==
    LET f == SelectSeq(dispatched, LAMBDA d : d.conn = u /\ d.n \in Range(letters))
    IN  [i \in 1..Len(f) |-> f[i].n]

\* C10: once nothing is pending, the frames of every segment received were
\* each dispatched once, in the order they had in the segment.
C10_SegmentDispatchedInOrder ==
    Quiescent =>
        \A u \in DOMAIN sent : \A k \in 1..Len(sent[u]) :
            DispatchedAmong(u, sent[u][k]) = sent[u][k]

\* The connection is registered and its socket is open.
StillOpen(u) ==
    /\ u \in DOMAIN transport /\ transport[u] = "open"
    /\ u \in DOMAIN connections

\* How often the frame numbered n of connection u, on queue q, was dispatched.
TimesDispatched(u, q, n) ==
    Cardinality({j \in 1..Len(dispatched) :
        dispatched[j].conn = u /\ dispatched[j].queue = q /\ dispatched[j].n = n})

\* C11: once nothing is pending, a publish frame that reached an open
\* connection in two reads, cut inside its header or inside its payload,
\* was dispatched exactly once, with its queue and its message.
C11_SplitFrameDispatchedOnce ==
    Quiescent =>
        \A i \in 1..Len(written) :
            (written[i].kind = "split" /\ StillOpen(written[i].conn))
                => TimesDispatched(written[i].conn, Q1, written[i].n) = 1

\* The bytes of a frame after its header's space: the payload.
PayloadSize(data) == Len(data) - FirstSpace(data)

\* C12: for a legal queue name (non-empty, no space) and a dictionary,
\* reading back the bytes send_message emitted gives a length equal to the
\* size of the payload in bytes, and the same queue and message.
C12_FramingRoundTrip ==
    codec.pc = "parsed" =>
        /\ codec.result.err = NONE
        /\ codec.result.length = PayloadSize(codec.data)
        /\ codec.result.queue = codec.queue
        /\ codec.result.message = codec.message

\* The welcome frame of connection u.
WelcomeFrame(u) ==
    [queue |-> u, message |-> [response |-> "OK: Welcome to CoreMQ server", server |-> ServerName]]

\* C13: the first frame written to a connection is the welcome frame, its
\* queue the connection's identifier: no broadcast copy and no reply comes
\* before it.
C13_WelcomeIsFirstFrame ==
    \A u \in DOMAIN out : out[u] # <<>> => out[u][1] = WelcomeFrame(u)

\* A connection was written a reply or a copy after its welcome frame.
C13_WelcomeThenMore ==
    \E u \in DOMAIN out : Len(out[u]) >= 2 /\ out[u][1] = WelcomeFrame(u)

MalformedKinds == {"badjson", "nondict", "nospace"}

ProtocolErrorKinds == {"noplus", "nolength", "nonint"}

\* How many frames of the kinds ks the client of u wrote.
WrittenOf(u, ks) ==
    Cardinality({i \in 1..Len(written) : written[i].conn = u /\ written[i].kind \in ks})

ErrorTexts ==
    {"ERROR: Missing queue or message", "ERROR: Message must be a dictionary",
     "ERROR: KeyError", "ERROR: Not allowed to be a replicant"}

\* The ERROR responses written to u on its private queue.
ErrorReplies(u) ==
    Cardinality({i \in 1..Len(out[u]) :
        /\ out[u][i].queue = u
        /\ "response" \in DOMAIN out[u][i].message
        /\ out[u][i].message["response"] \in ErrorTexts})

\* C14: once nothing is pending and no client has closed, a connection
\* that was sent well-framed payloads the broker cannot use (JSON that does
\* not parse, JSON that is no object, no space) is still open and
\* registered, and was written one ERROR response for each of them.
C14_MalformedPayloadAnswered ==
    (Quiescent /\ ncloses = 0) =>
        \A u \in DOMAIN out :
            WrittenOf(u, MalformedKinds) > 0 =>
                StillOpen(u) /\ ErrorReplies(u) = WrittenOf(u, MalformedKinds)

\* C15: once nothing is pending, a connection that was sent a segment with
\* no leading '+', no space after the length or a length that is no
\* integer is closed and out of the registry.
C15_ProtocolErrorCloses ==
    Quiescent =>
        \A i \in 1..Len(written) :
            written[i].kind \in ProtocolErrorKinds =>
                /\ written[i].conn \notin DOMAIN connections
                /\ written[i].conn \notin DOMAIN transport

\* The response text was written to u on its private queue.
Answered(u, text) ==
    \E i \in 1..Len(out[u]) :
        /\ out[u][i].queue = u
        /\ "response" \in DOMAIN out[u][i].message
        /\ out[u][i].message["response"] = text

\* The handshake of u was accepted: the flag is set and, while u is
\* registered, its declared name is recorded.
C16_Accepted(u) ==
    /\ proto[u].is_replicant
    /\ u \in DOMAIN connections =>
          u \in DOMAIN replicant_id_to_name /\ replicant_id_to_name[u] = PeerStamp

\* The handshake of u was refused: no flag, no name.
C16_Refused(u) == ~proto[u].is_replicant /\ u \notin DOMAIN replicant_id_to_name

\* C16: once nothing is pending, a connection answered 'OK: Replication
\* request successful' is a replicant with its declared name recorded, and
\* a connection answered 'ERROR: Not allowed to be a replicant' is no
\* replicant, has no name recorded, and is closed.
C16_HandshakeOutcome ==
    Quiescent =>
        \A u \in DOMAIN out :
            /\ Answered(u, "OK: Replication request successful") => C16_Accepted(u)
            /\ Answered(u, "ERROR: Not allowed to be a replicant") =>
                  C16_Refused(u) /\ u \notin DOMAIN transport /\ u \notin DOMAIN connections

\* C17: with fully qualified host names, when a broker handles a publish
\* that an accepted replicant forwarded to it with coremq_fwdto, it writes
\* a response addressed to coremq_fwdto on the replicant's connection, for
\* the replicant to relay to the publisher.
C17_MasterAnswersForwarded ==
    (dotted /\ lastb.published /\ lastb.fwd /\ ~lastb.via) => lastb.replied

\* The connect that followed a lost connection of broker b ends with no
\* server connected.
ReconnectFailed(b) ==
    /\ task[b].kind = "reconnect"
    /\ task'[b].kind = NONE
    /\ fconn'[b] = 0
    /\ phase'[b] = "up"

\* C18: when the connect that follows a lost connection has failed for
\* every listed peer, the callback has cleared the broker's master handle;
\* and a broker without a master handle forwards no publish upstream.
C18_PromotedWhenNoPeerAnswers ==
    [][\A b \in Brokers :
          /\ ReconnectFailed(b) => cmaster'[b] = 0
          /\ (lastb' # lastb /\ lastb'.broker = b /\ cmaster[b] = 0) => ~lastb'.up]_vars

\* A replicant that lost its master and found no peer handled a publish
\* of its local client, and did not forward it.
C18_PublishAfterPromotion ==
    \E b \in Brokers :
        /\ phase[b] = "up" /\ connected_once[b] /\ ncrashes > 0
        /\ task[b].kind = NONE /\ fconn[b] = 0 /\ cmaster[b] = 0
        /\ lastb.broker = b /\ lastb.published /\ ~lastb.via /\ ~lastb.up

\* The priority order of the command keys.
PriorityOrder ==
    <<"coremq_subscribe", "coremq_unsubscribe", "coremq_options", "coremq_gethistory",
      "coremq_replicant", "coremq_status">>

\* The key of ks that comes first in the priority order; NONE when ks is empty.
FirstInOrder(ks) ==
    IF ks = {} THEN NONE
    ELSE PriorityOrder[CHOOSE i \in 1..Len(PriorityOrder) :
                          /\ PriorityOrder[i] \in ks
                          /\ \A j \in 1..(i - 1) : PriorityOrder[j] \notin ks]

HasCommandKey(message) == \E i \in 1..Len(PriorityOrder) : Has(message, PriorityOrder[i])

\* C19: every dispatched message was handled by the handler of its first
\* command key in the order subscribe, unsubscribe, options, get-history,
\* replicant, status; a message with a command key is neither in the
\* history nor among the publishes nor broadcast, and a message with none
\* is published.
C19_FirstCommandKeyWins ==
    /\ \A i \in 1..Len(dispatched) :
          LET d == dispatched[i]
          IN  /\ d.handled = FirstInOrder(d.keys)
              /\ d.keys # {} =>
                    \A q \in Queues : d.n \notin Range(published[q])
                                      /\ d.n \notin Range(HistoryLetters(q))
              /\ (d.keys = {} /\ d.queue \in Queues) => d.n \in Range(published[d.queue])
    /\ ~HasCommandKey(last.message)
    /\ \A i \in 1..Len(ready) : ready[i].kind = "broadcast" => ~HasCommandKey(ready[i].message)

\* A message bearing two command keys was dispatched, and so was a publish.
C19_TwoKeysDispatched ==
    /\ \E i \in 1..Len(dispatched) : Cardinality(dispatched[i].keys) >= 2
    /\ \E i \in 1..Len(dispatched) : dispatched[i].keys = {}
    /\ last.n > 0

\* C20: the dispatcher and the end of a publish write nothing to any
\* connection for a message that arrived bearing coremq_server.
C20_NoReplyToReplicated ==
    [][/\ (Running("new_message") /\ Has(Head(ready).message, "coremq_server")) => out' = out
       /\ (Running("wakeup") /\ Head(ready).data.quiet) => out' = out]_vars

\* C21: a broadcast is not cut short: every registered replicant whose
\* declared name differs from the message's coremq_server, and every
\* registered subscriber of the queue that is neither the sender nor a
\* replicant, is written to, whatever connections were removed before.
C21_FanoutReachesEveryRecipient ==
    last.n > 0 =>
        /\ \A i \in DOMAIN last.names \cap DOMAIN last.registry :
              last.names[i] # last.message["coremq_server"] => i \in last.replicants
        /\ \A i \in DOMAIN last.registry :
              (/\ i # last.sender
               /\ ~last.registry[i].is_replicant
               /\ InSeq(last.queue, last.registry[i].subscriptions)) => i \in last.subscribers

\* C22: what the replication client hands to the local broker is never
\* the master's answer to its handshake, accepted or refused.
C22_HandshakeAnswerNeverInjected ==
    lastb.via =>
        lastb.response \notin {"OK: Replication request successful",
                               "ERROR: Not allowed to be a replicant"}

C24_SelfRemovedFromPeers ==
    /\ \A b \in Brokers :
          phase[b] # "down" =>
              Servers(b) = SelectSeq(cluster_nodes, LAMBDA s : EntryBroker(s) # b)
    /\ \A l \in 1..Len(links) : links[l].cli # links[l].srv

\* C25: a broadcast of a broker with no upstream writes one copy to every
\* registered replicant whose declared name differs from the message's
\* coremq_server, subscribed or not, and none as a subscriber; the copy
\* bears coremq_master equal to the broker's name.
C25_EveryReplicantOneCopy ==
    (last.n > 0 /\ master = NONE) =>
        /\ \A i \in DOMAIN last.names \cap DOMAIN last.registry :
              last.names[i] # last.message["coremq_server"] =>
                  i \in last.replicants /\ i \notin last.subscribers
        /\ last.replicants # {} =>
              (Has(last.message, "coremq_master") /\ last.message["coremq_master"] = ServerName)

\* C26: every message handed to new_message bears the identifier of the
\* connection it arrived on as its coremq_sender.
C26_SenderIsConnection ==
    \A i \in 1..Len(dispatched) : dispatched[i].sender = dispatched[i].conn

\* A publish whose payload named the first connection as its sender arrived
\* on another connection and was dispatched.
C26_SpoofedSenderDispatched ==
    \E w \in 1..Len(written) : \E i \in 1..Len(dispatched) :
        /\ written[w].kind = "spoofed" /\ written[w].conn # Uuid(1)
        /\ dispatched[i].conn = written[w].conn /\ dispatched[i].n = written[w].n

\* C27: every key of replicant_id_to_name is a registered connection, and
\* a registered connection is flagged is_replicant exactly when its
\* identifier is such a key.
C27_ReplicantMapRegistered ==
    /\ \A i \in DOMAIN replicant_id_to_name : i \in DOMAIN connections
    /\ \A i \in DOMAIN connections :
          proto[connections[i]].is_replicant <=> i \in DOMAIN replicant_id_to_name

\* C28: once factory.connect() has returned, a master handle that is set
\* refers to the factory's open outbound connection, on which the replicant
\* handshake is sent; this holds after a lost connection and a successful
\* reconnect too.
C28_MasterHandleIsOpenLink ==
    \A b \in Brokers :
        (phase[b] = "up" /\ task[b].kind = NONE /\ cmaster[b] # 0) =>
            /\ links[cmaster[b]].open
            /\ links[cmaster[b]].cli = b
            /\ links[cmaster[b]].hs
            /\ cmaster[b] = fconn[b]

\* The replication client of link l takes a frame whose queue is not its
\* own identifier.
ReplicatedFrameTaken(l) ==
    /\ l \in 1..Len(links)
    /\ links[l].open /\ links[l].uuid_known
    /\ links[l].toCli # <<>>
    /\ Head(links[l].toCli).queue # Uuid(l)
    /\ links'[l].open
    /\ links'[l].toCli = Tail(links[l].toCli)
    /\ ndispatch' = ndispatch + 1

\* C29: a frame the replication client receives on a queue other than its
\* own identifier is handed to new_message of the broker, local connection
\* or not: the message is appended to the history and fanned out, and no
\* reply is written for it.
C29_ReplicatedFrameInjected ==
    [][\A l \in 1..MaxLinks :
          ReplicatedFrameTaken(l) =>
              /\ lastb'.via /\ lastb'.broker = links[l].cli
              /\ lastb'.queue = Head(links[l].toCli).queue
              /\ lastb'.route = Append(Head(links[l].toCli).route, links[l].cli)
              /\ lastb'.stored
              /\ ~lastb'.replied]_vars

\* C30: across the cluster, the one message the clients publish is
\* delivered at most once to the subscribed client connection of any broker.
C30_AtMostOneDelivery ==
    \A b \in Brokers : copies[b] <= MaxPublishes

=============================================================================
